---- MODULE Spec2Model ----
(***************************************************************************)
(* Bus seat reservation application (src/app.py).                          *)
(*                                                                         *)
(* State: the reservations table, the admins table, the browser session    *)
(* cookie, the last request handled and the response it produced, and the  *)
(* booking requests that have passed the seat check but not yet committed. *)
(*                                                                         *)
(* Text is modelled as a sequence of one-character strings so that         *)
(* str.strip(), int() and the f-string formatting are computed, not        *)
(* assumed.  An optional value (Python None) is the empty sequence, a      *)
(* present value x is <<x>>.                                               *)
(***************************************************************************)
EXTENDS Integers, Sequences, FiniteSets, TLC

VARIABLES
    reservations,   \* rows of table "reservations"
    admins,         \* rows of table "admins"
    session,        \* flask session: a function from its keys to their values
    request,        \* the last request handled
    response,       \* the response to it
    inflight        \* per worker: a booking between seat check and commit

vars == <<reservations, admins, session, request, response, inflight>>

---------------------------------------------------------------------------
(* Bounds of the model *)

\* Largest primary key the database hands out.
MaxId == 2

\* Number of distinct reservation codes the random generator is seen to draw.
NumCodes == 2

\* Number of request workers that may handle bookings concurrently.
NumWorkers == 2

---------------------------------------------------------------------------
(* Program constants *)

NumRows == 12
NumCols == 4
CodeLength == 8

None == <<>>
Some(x) == <<x>>

---------------------------------------------------------------------------
(* Text helpers: Python str.strip(), int(), str(int), format specs *)

Whitespace == {" ", "\t", "\n"}
Digits == <<"0", "1", "2", "3", "4", "5", "6", "7", "8", "9">>
DigitSet == {Digits[i] : i \in 1..10}

RECURSIVE lstrip(_)
lstrip(s) ==
    IF s = <<>> THEN s
    ELSE IF Head(s) \in Whitespace THEN lstrip(Tail(s)) ELSE s

RECURSIVE rstrip(_)
rstrip(s) ==
    IF s = <<>> THEN s
    ELSE IF s[Len(s)] \in Whitespace THEN rstrip(SubSeq(s, 1, Len(s) - 1)) ELSE s

\* str.strip()
strip(s) == rstrip(lstrip(s))

DigitValue(ch) == (CHOOSE i \in 1..10 : Digits[i] = ch) - 1

RECURSIVE DigitsValue(_)
DigitsValue(s) ==
    IF s = <<>> THEN 0
    ELSE 10 * DigitsValue(SubSeq(s, 1, Len(s) - 1)) + DigitValue(s[Len(s)])

\* int(s) for a str: surrounding whitespace is ignored, one optional sign,
\* then one or more decimal digits; anything else raises ValueError.
int(s) ==
    LET t == strip(s)
        signed == t /= <<>> /\ Head(t) \in {"+", "-"}
        body == IF signed THEN Tail(t) ELSE t
        wellFormed == body /= <<>> /\ \A i \in 1..Len(body) : body[i] \in DigitSet
    IN  IF ~wellFormed THEN [ok |-> FALSE, val |-> 0]
        ELSE [ok |-> TRUE,
              val |-> IF signed /\ Head(t) = "-" THEN 0 - DigitsValue(body)
                      ELSE DigitsValue(body)]

\* str(n) for n >= 0
RECURSIVE NatToStr(_)
NatToStr(n) ==
    IF n < 10 THEN <<Digits[n + 1]>>
    ELSE NatToStr(n \div 10) \o <<Digits[(n % 10) + 1]>>

\* f"{n}" for an int
IntToStr(n) == IF n < 0 THEN <<"-">> \o NatToStr(0 - n) ELSE NatToStr(n)

\* f"{i:2}": right-aligned in a field of width 2
FormatWidth2(i) ==
    LET s == IntToStr(i) IN IF Len(s) < 2 THEN <<" ">> \o s ELSE s

\* f"{price:.2f}" for an int price
FormatFixed2(price) == IntToStr(price) \o <<".", "0", "0">>

\* sep.join(parts)
RECURSIVE Join(_, _)
Join(sep, parts) ==
    IF parts = <<>> THEN <<>>
    ELSE IF Len(parts) = 1 THEN parts[1]
    ELSE parts[1] \o sep \o Join(sep, Tail(parts))

\* seq[i] with Python's 0-based index, negative indexes counting from the end
PyIndex(seq, i) == IF i >= 0 THEN seq[i + 1] ELSE seq[Len(seq) + i + 1]

---------------------------------------------------------------------------
(* Tables *)

Ids == 1..MaxId

\* A row of table "reservations".  Column "created" is filled in by the
\* database at insert and assigned by no handler; it is not carried.
Reservation(id, passengerName, seatRow, seatColumn, eTicketNumber) ==
    [id |-> id, passengerName |-> passengerName, seatRow |-> seatRow,
     seatColumn |-> seatColumn, eTicketNumber |-> eTicketNumber]

\* A row of table "admins".
Admin(username, password) == [username |-> username, password |-> password]

\* Mutant: column eTicketNumber is not declared unique.
InsertAllowed_NoUniqueCode(table, row) ==
    \A r \in table : r.id /= row.id

\* Mutant: the table also has a unique constraint on (seatRow, seatColumn).
InsertAllowed_UniqueSeat(table, row) ==
    /\ \A r \in table : r.id /= row.id
    /\ \A r \in table : r.eTicketNumber /= row.eTicketNumber
    /\ \A r \in table : r.seatRow /= row.seatRow \/ r.seatColumn /= row.seatColumn

\* INSERT succeeds when the primary key and the unique column are unused.
InsertAllowed(table, row) ==
    /\ \A r \in table : r.id /= row.id
    /\ \A r \in table : r.eTicketNumber /= row.eTicketNumber

\* Primary keys the database may assign to a new row.
FreshIds(table) == {i \in Ids : \A r \in table : r.id /= i}

\* Reservation.query.all(): the rows in primary-key order.
RECURSIVE QueryAll(_)
QueryAll(table) ==
    IF table = {} THEN <<>>
    ELSE LET first == CHOOSE r \in table : \A q \in table : r.id <= q.id
         IN  <<first>> \o QueryAll(table \ {first})

\* Reservation.query.filter_by(seatRow=..., seatColumn=...).first()
FilterBySeat(table, seat_row, seat_column) ==
    LET hits == QueryAll({r \in table : r.seatRow = seat_row /\ r.seatColumn = seat_column})
    IN  IF hits = <<>> THEN None ELSE Some(Head(hits))

\* Reservation.query.get(res_id)
QueryGet(table, res_id) ==
    IF \E r \in table : r.id = res_id
    THEN Some(CHOOSE r \in table : r.id = res_id)
    ELSE None

---------------------------------------------------------------------------
(* Helpers *)

\* Mutant: the last column is priced like the second.
get_cost_matrix_LastColumn == [i \in 1..NumRows |-> <<100, 75, 50, 75>>]

get_cost_matrix == [i \in 1..NumRows |-> <<100, 75, 50, 100>>]

CodeAlphabet ==
    <<"A", "B", "C", "D", "E", "F", "G", "H", "I", "J", "K", "L", "M",
      "N", "O", "P", "Q", "R", "S", "T", "U", "V", "W", "X", "Y", "Z",
      "0", "1", "2", "3", "4", "5", "6", "7", "8", "9">>

\* The codes random.choices may return: every string of the given length over
\* CodeAlphabet.  The model draws from NumCodes of them.
generate_reservation_code(length) ==
    {[i \in 1..length |-> CodeAlphabet[((7 * k + 5 * i) % Len(CodeAlphabet)) + 1]] :
        k \in 1..NumCodes}

RECURSIVE MarkSeats(_, _)
MarkSeats(seats, rs) ==
    IF rs = <<>> THEN seats
    ELSE LET r == Head(rs)
             row_idx == r.seatRow - 1
             col_idx == r.seatColumn - 1
         IN  MarkSeats(
                IF 0 <= row_idx /\ row_idx < NumRows /\ 0 <= col_idx /\ col_idx < NumCols
                THEN [seats EXCEPT ![row_idx + 1][col_idx + 1] = "X"]
                ELSE seats,
                Tail(rs))

ChartLine(i, row) ==
    <<"R", "o", "w", " ">> \o FormatWidth2(i) \o <<":", " ">>
        \o Join(<<" ">>, [j \in 1..Len(row) |-> <<row[j]>>])

build_seating_chart(rs) ==
    LET seats == MarkSeats([i \in 1..NumRows |-> [j \in 1..NumCols |-> "O"]], rs)
    IN  Join(<<"\n">>, [i \in 1..NumRows |-> ChartLine(i, seats[i])])

calculate_price_for_seat(row, col) ==
    PyIndex(PyIndex(get_cost_matrix, row - 1), col - 1)

RECURSIVE calculate_total_sales(_)
calculate_total_sales(rs) ==
    IF rs = <<>> THEN 0
    ELSE calculate_total_sales(SubSeq(rs, 1, Len(rs) - 1))
            + calculate_price_for_seat(rs[Len(rs)].seatRow, rs[Len(rs)].seatColumn)

---------------------------------------------------------------------------
(* Requests, responses, session *)

Workers == 1..NumWorkers

\* A form is a function from the names of the fields sent to their text.
NoForm == [k \in {} |-> <<>>]

Request(handler, method, form, res_id) ==
    [handler |-> handler, method |-> method, form |-> form, res_id |-> res_id]

Response(status, template, location, error, success, seating, total_sales, rows) ==
    [status |-> status, template |-> template, location |-> location,
     error |-> error, success |-> success, seating |-> seating,
     total_sales |-> total_sales, reservations_with_price |-> rows]

\* render_template(name, ...)
Render(template, error, success, seating, total_sales, rows) ==
    Response(200, template, "", error, success, seating, total_sales, rows)

\* redirect(url_for(endpoint))
Redirect(location) == Response(302, "", location, None, None, None, None, None)

\* request.form[key] on a key that was not sent, outside any try block
BadRequest == Response(400, "", "", None, None, None, None, None)

\* an exception that reaches the framework
ServerError == Response(500, "", "", None, None, None, None, None)

EmptySession == [k \in {} |-> <<>>]
SessionSet(s, key, value) ==
    [k \in DOMAIN s \cup {key} |-> IF k = key THEN value ELSE s[k]]
SessionPop(s, key) == [k \in DOMAIN s \ {key} |-> s[k]]

\* "admin_username" in session
LoggedIn(s) == "admin_username" \in DOMAIN s

---------------------------------------------------------------------------
(* POST /reserve, up to the seat check (lines 118-144) *)

\* Mutant: the range check admits column 0.
SeatInRange_ColumnZero(seat_row, seat_column) ==
    1 <= seat_row /\ seat_row <= NumRows /\ 0 <= seat_column /\ seat_column <= NumCols

SeatInRange(seat_row, seat_column) ==
    1 <= seat_row /\ seat_row <= NumRows /\ 1 <= seat_column /\ seat_column <= NumCols

\* Mutant: the existence check filters both columns by the row number.
SeatTaken_RowTwice(table, seat_row, seat_column) ==
    \E r \in table : r.seatRow = seat_row /\ r.seatColumn = seat_row

\* Mutant: the existence check filters both columns by the column number.
SeatTaken_ColumnTwice(table, seat_row, seat_column) ==
    \E r \in table : r.seatRow = seat_column /\ r.seatColumn = seat_column

SeatTaken(table, seat_row, seat_column) ==
    FilterBySeat(table, seat_row, seat_column) /= None

\* The result of the handler's validation against the table as it is read
\* (the dashes of the range message are written "-" here):
\* either a finished response, or the reservation it goes on to insert.
ReserveCheck(table, form) ==
    LET seating == build_seating_chart(QueryAll(table))
        Fail(msg) == [proceed |-> FALSE,
                      response |-> Render("reserve.html", Some(msg), None,
                                          Some(seating), None, None)]
    IN  IF ~({"first_name", "last_name"} \subseteq DOMAIN form)
        THEN [proceed |-> FALSE, response |-> BadRequest]
        ELSE
        LET passenger_name == strip(form["first_name"]) \o <<" ">> \o strip(form["last_name"])
            parsed == /\ "seat_row" \in DOMAIN form
                      /\ int(form["seat_row"]).ok
                      /\ "seat_column" \in DOMAIN form
                      /\ int(form["seat_column"]).ok
        IN  IF ~parsed THEN Fail("Seat row and column must be numbers.")
            ELSE
            LET seat_row == int(form["seat_row"]).val
                seat_column == int(form["seat_column"]).val
            IN  IF ~SeatInRange(seat_row, seat_column)
                THEN Fail("Invalid seat selection. Row must be 1-12 and column 1-4.")
                ELSE IF SeatTaken(table, seat_row, seat_column)
                THEN Fail("That seat is already reserved. Please pick another.")
                ELSE [proceed |-> TRUE,
                      passenger_name |-> passenger_name,
                      seat_row |-> seat_row,
                      seat_column |-> seat_column]

(* POST /reserve, from the insert on (lines 146-168) *)

SuccessMessage(passenger_name, code, seat_row, seat_column, price) ==
    <<"Reservation confirmed for ", passenger_name, "! Code: ", code,
      ", Seat: Row ", IntToStr(seat_row), ", Column ", IntToStr(seat_column),
      ", Price: $", FormatFixed2(price)>>

\* The table after db.session.add + commit of new_res with primary key id.
CommitTable(table, new_res) ==
    IF InsertAllowed(table, new_res) THEN table \cup {new_res} ELSE table

CommitResponse(table, new_res) ==
    IF ~InsertAllowed(table, new_res) THEN ServerError
    ELSE Render("reserve.html", None,
                Some(SuccessMessage(new_res.passengerName, new_res.eTicketNumber,
                                    new_res.seatRow, new_res.seatColumn,
                                    calculate_price_for_seat(new_res.seatRow,
                                                             new_res.seatColumn))),
                Some(build_seating_chart(QueryAll(CommitTable(table, new_res)))),
                None, None)

---------------------------------------------------------------------------
(* Inputs the requests are drawn from *)

\* A form holding the fields whose value is given (Some), leaving out the rest.
MakeForm(vals) ==
    [k \in {f \in DOMAIN vals : vals[f] /= None} |-> vals[k][1]]

BookingForm(first, last, row, col) ==
    MakeForm([first_name |-> first, last_name |-> last,
              seat_row |-> row, seat_column |-> col])

\* Seats (1,1), (1,3), (12,2) and (12,4) as a browser may send them.
GoodSeatTexts ==
    {<<<<"1">>, <<"1">>>>, <<<<"1">>, <<"+", "3">>>>,
     <<<<" ", "1", "2">>, <<"2">>>>, <<<<"1", "2">>, <<"4", " ">>>>}
FirstNameText == <<" ", "A", "n", "n">>
LastNameText == <<"L", "e", "e", " ">>

\* Well-formed bookings of seats in range.
GoodBookingForms ==
    {BookingForm(Some(FirstNameText), Some(LastNameText), Some(t[1]), Some(t[2])) :
        t \in GoodSeatTexts}

\* Bookings with a field missing, a seat that is no number, or out of range.
BadBookingForms ==
    {BookingForm(None, Some(LastNameText), Some(<<"1">>), Some(<<"1">>)),
     BookingForm(Some(FirstNameText), Some(LastNameText), None, Some(<<"1">>)),
     BookingForm(Some(FirstNameText), Some(LastNameText), Some(<<"1">>), None),
     BookingForm(Some(FirstNameText), Some(LastNameText), Some(<<"x">>), Some(<<"1">>)),
     BookingForm(Some(FirstNameText), Some(LastNameText), Some(<<"1">>), Some(<<>>)),
     BookingForm(Some(FirstNameText), Some(LastNameText), Some(<<"1", " ", "2">>), Some(<<"9">>)),
     BookingForm(Some(FirstNameText), Some(LastNameText), Some(<<"1", "3">>), Some(<<"1">>)),
     BookingForm(Some(FirstNameText), Some(LastNameText), Some(<<"0">>), Some(<<"1">>)),
     BookingForm(Some(FirstNameText), Some(LastNameText), Some(<<"1">>), Some(<<"0">>)),
     BookingForm(Some(FirstNameText), Some(LastNameText), Some(<<"1">>), Some(<<"5">>)),
     BookingForm(Some(FirstNameText), Some(LastNameText), Some(<<"-", "1">>), Some(<<"x">>))}

BookingForms == GoodBookingForms \cup BadBookingForms

\* The booking the workers race for: seat (1,3).
RacingForms ==
    {BookingForm(Some(FirstNameText), Some(LastNameText), Some(<<"1">>), Some(<<"+", "3">>))}

LoginForm(username, password) ==
    MakeForm([username |-> username, password |-> password])

LoginForms ==
    {LoginForm(Some(<<"a">>), Some(<<"p">>)),
     LoginForm(Some(<<" ", "a", " ">>), Some(<<"p", "\n">>)),
     LoginForm(Some(<<"a">>), Some(<<"q">>)),
     LoginForm(Some(<<"b">>), Some(<<" ", "q">>)),
     LoginForm(Some(<<"A">>), Some(<<"p">>)),
     LoginForm(None, Some(<<"p">>)),
     LoginForm(Some(<<"a">>), None)}

\* The admin's own login.
AdminLoginForms == {LoginForm(Some(<<"a">>), Some(<<"p">>))}

\* <int:res_id> of the delete route
ResIds == 0..MaxId

\* The admins table as provisioned: one admin who can log in, and one whose
\* stored password starts with a blank.
SeedAdmins == {Admin(<<"a">>, <<"p">>), Admin(<<"b">>, <<" ", "q">>)}

NoRequest == Request("", "", NoForm, 0)
NoResponse == Response(0, "", "", None, None, None, None, None)

Init ==
    /\ reservations = {}
    /\ admins = SeedAdmins
    /\ session = EmptySession
    /\ request = NoRequest
    /\ response = NoResponse
    /\ inflight = [w \in Workers |-> None]

---------------------------------------------------------------------------
(* Handlers *)

\* GET /
index ==
    /\ request' = Request("index", "GET", NoForm, 0)
    /\ response' = Render("index.html", None, None, None, None, None)
    /\ UNCHANGED <<reservations, admins, session, inflight>>

\* GET /reserve
reserve_seat_get ==
    /\ request' = Request("reserve_seat", "GET", NoForm, 0)
    /\ response' = Render("reserve.html", None, None,
                          Some(build_seating_chart(QueryAll(reservations))), None, None)
    /\ UNCHANGED <<reservations, admins, session, inflight>>

\* POST /reserve, handled from start to end with no other request in between
reserve_seat(form) ==
    LET chk == ReserveCheck(reservations, form)
    IN  /\ request' = Request("reserve_seat", "POST", form, 0)
        /\ IF ~chk.proceed
           THEN /\ response' = chk.response
                /\ UNCHANGED reservations
           ELSE \E code \in generate_reservation_code(CodeLength),
                   id \in FreshIds(reservations) :
                    LET new_res == Reservation(id, chk.passenger_name, chk.seat_row,
                                               chk.seat_column, code)
                    IN  /\ reservations' = CommitTable(reservations, new_res)
                        /\ response' = CommitResponse(reservations, new_res)
        /\ UNCHANGED <<admins, session, inflight>>

\* POST /reserve on worker w, through the seat check and the code generation
reserve_seat_begin(w, form) ==
    LET chk == ReserveCheck(reservations, form)
        req == Request("reserve_seat", "POST", form, 0)
    IN  /\ inflight[w] = None
        /\ IF ~chk.proceed
           THEN /\ request' = req
                /\ response' = chk.response
                /\ UNCHANGED inflight
           ELSE \E code \in generate_reservation_code(CodeLength) :
                    /\ inflight' = [inflight EXCEPT ![w] =
                            Some([request |-> req,
                                  passenger_name |-> chk.passenger_name,
                                  seat_row |-> chk.seat_row,
                                  seat_column |-> chk.seat_column,
                                  code |-> code])]
                    /\ UNCHANGED <<request, response>>
        /\ UNCHANGED <<reservations, admins, session>>

\* POST /reserve on worker w, the insert, commit and rendering
reserve_seat_commit(w) ==
    /\ inflight[w] /= None
    /\ LET p == inflight[w][1]
       IN  \E id \in FreshIds(reservations) :
            LET new_res == Reservation(id, p.passenger_name, p.seat_row,
                                       p.seat_column, p.code)
            IN  /\ reservations' = CommitTable(reservations, new_res)
                /\ response' = CommitResponse(reservations, new_res)
                /\ request' = p.request
    /\ inflight' = [inflight EXCEPT ![w] = None]
    /\ UNCHANGED <<admins, session>>

\* Mutant: the lookup filters by username only.
FindAdmin_UsernameOnly(table, username, password) ==
    LET hits == {a \in table : a.username = username}
    IN  IF hits = {} THEN None ELSE Some(CHOOSE a \in hits : TRUE)

\* Admin.query.filter_by(username=..., password=...).first()
FindAdmin(table, username, password) ==
    LET hits == {a \in table : a.username = username /\ a.password = password}
    IN  IF hits = {} THEN None ELSE Some(CHOOSE a \in hits : TRUE)

\* GET /admin/login
admin_login_get ==
    /\ request' = Request("admin_login", "GET", NoForm, 0)
    /\ response' = Render("login.html", None, None, None, None, None)
    /\ UNCHANGED <<reservations, admins, session, inflight>>

\* POST /admin/login
admin_login(form) ==
    /\ request' = Request("admin_login", "POST", form, 0)
    /\ IF ~({"username", "password"} \subseteq DOMAIN form)
       THEN /\ response' = BadRequest
            /\ UNCHANGED session
       ELSE LET username == strip(form["username"])
                password == strip(form["password"])
                admin == FindAdmin(admins, username, password)
            IN  IF admin /= None
                THEN /\ session' = SessionSet(session, "admin_username", admin[1].username)
                     /\ response' = Redirect("/admin")
                ELSE /\ response' = Render("login.html",
                                           Some("Invalid username or password."),
                                           None, None, None, None)
                     /\ UNCHANGED session
    /\ UNCHANGED <<reservations, admins, inflight>>

\* GET /admin
admin_dashboard ==
    /\ request' = Request("admin_dashboard", "GET", NoForm, 0)
    /\ IF ~LoggedIn(session)
       THEN response' = Redirect("/admin/login")
       ELSE LET rs == QueryAll(reservations)
            IN  response' = Render("admin.html", None, None,
                    Some(build_seating_chart(rs)),
                    Some(calculate_total_sales(rs)),
                    Some([i \in 1..Len(rs) |->
                            <<rs[i], calculate_price_for_seat(rs[i].seatRow,
                                                              rs[i].seatColumn)>>]))
    /\ UNCHANGED <<reservations, admins, session, inflight>>

\* Mutant: the delete handler does not look at the session.
DeleteTable_NoGate(table, s, res_id) ==
    {r \in table : r.id /= res_id}

\* Mutant: the delete removes every reservation up to the given id.
DeleteTable_UpTo(table, s, res_id) ==
    IF ~LoggedIn(s) THEN table ELSE {r \in table : r.id > res_id}

\* The table after delete_reservation(res_id) under session s.
DeleteTable(table, s, res_id) ==
    IF ~LoggedIn(s) THEN table
    ELSE LET res == QueryGet(table, res_id)
         IN  IF res /= None THEN table \ {res[1]} ELSE table

\* POST /admin/delete/<res_id>
delete_reservation(res_id) ==
    /\ request' = Request("delete_reservation", "POST", NoForm, res_id)
    /\ reservations' = DeleteTable(reservations, session, res_id)
    /\ response' = IF ~LoggedIn(session) THEN Redirect("/admin/login")
                   ELSE Redirect("/admin")
    /\ UNCHANGED <<admins, session, inflight>>

\* GET /admin/logout
admin_logout ==
    /\ request' = Request("admin_logout", "GET", NoForm, 0)
    /\ session' = SessionPop(session, "admin_username")
    /\ response' = Redirect("/")
    /\ UNCHANGED <<reservations, admins, inflight>>

---------------------------------------------------------------------------
(* Specifications *)

\* Requests handled one at a time.
Next ==
    \/ index
    \/ reserve_seat_get
    \/ \E form \in BookingForms : reserve_seat(form)
    \/ admin_login_get
    \/ \E form \in LoginForms : admin_login(form)
    \/ admin_dashboard
    \/ \E res_id \in ResIds : delete_reservation(res_id)
    \/ admin_logout

Spec == Init /\ [][Next]_vars

\* Bookings handled by concurrent workers, interleaved with the admin's
\* login and deletes.
NextConc ==
    \/ \E w \in Workers, form \in RacingForms : reserve_seat_begin(w, form)
    \/ \E w \in Workers : reserve_seat_commit(w)
    \/ \E form \in AdminLoginForms : admin_login(form)
    \/ \E res_id \in ResIds : delete_reservation(res_id)

SpecConc == Init /\ [][NextConc]_vars

---------------------------------------------------------------------------
(* Vocabulary of the claims *)

IsBooking(req) == req.handler = "reserve_seat" /\ req.method = "POST"

HasNames(form) == {"first_name", "last_name"} \subseteq DOMAIN form

\* The seat fields are both present and both read as integers.
SeatParses(form) ==
    /\ {"seat_row", "seat_column"} \subseteq DOMAIN form
    /\ int(form["seat_row"]).ok
    /\ int(form["seat_column"]).ok

RowOf(form) == int(form["seat_row"]).val
ColOf(form) == int(form["seat_column"]).val

InRange(r, c) == r \in 1..12 /\ c \in 1..4

At(table, r, c) == {x \in table : x.seatRow = r /\ x.seatColumn = c}

MsgNotNumbers == "Seat row and column must be numbers."
MsgInvalidSeat == "Invalid seat selection. Row must be 1-12 and column 1-4."
MsgTaken == "That seat is already reserved. Please pick another."

---------------------------------------------------------------------------
\* C1: with requests handled one at a time, every reachable reservations
\* table holds at most one reservation for any (seatRow, seatColumn) pair.
C1_OneReservationPerSeat ==
    \A x, y \in reservations :
        (x.seatRow = y.seatRow /\ x.seatColumn = y.seatColumn) => x = y

\* Two seats are reserved and a further booking of a reserved seat has just
\* been turned away.
C1_Witness ==
    /\ Cardinality(reservations) >= 2
    /\ IsBooking(request)
    /\ response.error = Some(MsgTaken)

\* C2: a booking of an in-range seat that is already reserved is answered
\* with the seat-already-reserved error (a form that lacks a name field is
\* answered 400 before the seat is looked at), never with a success message;
\* the table is left as it was, and it still holds exactly one reservation
\* for that seat.
C2_ConflictLeavesStore ==
    [][ ( /\ IsBooking(request')
          /\ SeatParses(request'.form)
          /\ InRange(RowOf(request'.form), ColOf(request'.form))
          /\ At(reservations, RowOf(request'.form), ColOf(request'.form)) /= {} )
        => ( /\ IF HasNames(request'.form)
                THEN /\ response'.status = 200
                     /\ response'.error = Some(MsgTaken)
                ELSE response' = BadRequest
             /\ response'.success = None
             /\ reservations' = reservations
             /\ Cardinality(At(reservations', RowOf(request'.form),
                               ColOf(request'.form))) = 1 ) ]_vars

\* Seat (1,3) is reserved once and the last booking asked for it again.
C2_Witness ==
    /\ IsBooking(request)
    /\ SeatParses(request.form)
    /\ RowOf(request.form) = 1 /\ ColOf(request.form) = 3
    /\ response.error = Some(MsgTaken)
    /\ Cardinality(At(reservations, 1, 3)) = 1

\* C3: a booking whose seat row or column is missing or is not an integer
\* is answered "must be numbers"; one whose seat parses but lies outside
\* rows 1..12 / columns 1..4 is answered "Invalid seat selection" (a form
\* that lacks a name field is answered 400 before the seat is parsed); in
\* every case there is no success message, the chart shown is that of the
\* unchanged table, and the table is left as it was, whatever it holds.
C3_InvalidSeatLeavesStore ==
    [][ ( /\ IsBooking(request')
          /\ \/ ~SeatParses(request'.form)
             \/ ~InRange(RowOf(request'.form), ColOf(request'.form)) )
        => ( /\ reservations' = reservations
             /\ response'.success = None
             /\ IF HasNames(request'.form)
                THEN /\ response'.seating =
                            Some(build_seating_chart(QueryAll(reservations)))
                     /\ response'.error =
                            IF ~SeatParses(request'.form) THEN Some(MsgNotNumbers)
                            ELSE Some(MsgInvalidSeat)
                ELSE response' = BadRequest ) ]_vars

\* With a reservation in the table, row 13 has just been refused.
C3_Witness ==
    /\ reservations /= {}
    /\ IsBooking(request)
    /\ SeatParses(request.form)
    /\ RowOf(request.form) = 13
    /\ response.error = Some(MsgInvalidSeat)

\* With a reservation in the table, a non-numeric row together with an
\* out-of-range column has just been refused as not a number.
C3_WitnessNotNumber ==
    /\ reservations /= {}
    /\ IsBooking(request)
    /\ ~SeatParses(request.form)
    /\ response.error = Some(MsgNotNumbers)

\* The character of chart text that shows seat (r, c): each line is the
\* eight characters "Row NN: ", four cells one blank apart, and a newline.
ChartCell(chart, r, c) == chart[16 * (r - 1) + 8 + 2 * (c - 1) + 1]

\* The chart of a table, cell by cell, without its text.
Occupied(table, r, c) == At(table, r, c) /= {}

\* C4: a booking (names given) of a free in-range seat (r,c) inserts exactly
\* one reservation with that seat, leaves the reservations already there as
\* they were, and returns the chart of the table after the insert, showing
\* (r,c) occupied and every other cell as before.
C4_BookingInsertsOne ==
    [][ ( /\ IsBooking(request')
          /\ HasNames(request'.form)
          /\ SeatParses(request'.form)
          /\ InRange(RowOf(request'.form), ColOf(request'.form))
          /\ At(reservations, RowOf(request'.form), ColOf(request'.form)) = {} )
        => LET r == RowOf(request'.form)
               c == ColOf(request'.form)
           IN  /\ reservations \subseteq reservations'
               /\ Cardinality(reservations' \ reservations) = 1
               /\ \A x \in reservations' \ reservations :
                        x.seatRow = r /\ x.seatColumn = c
               /\ response'.seating /= None
               /\ \A i \in 1..12, j \in 1..4 :
                    ChartCell(response'.seating[1], i, j) =
                        IF (i = r /\ j = c) \/ Occupied(reservations, i, j)
                        THEN "X" ELSE "O" ]_vars

\* C5: without an admin session, the dashboard and the delete request are
\* answered by a redirect to the login page and change neither table nor
\* session; a reservation in the table is never changed, and it leaves the
\* table only in a delete request for its own id made under an admin session.
C5_GateAndLifecycle ==
    [][ /\ ( /\ request'.handler \in {"admin_dashboard", "delete_reservation"}
             /\ ~LoggedIn(session) )
           => ( /\ response' = Redirect("/admin/login")
                /\ reservations' = reservations
                /\ session' = session )
        /\ \A x \in reservations :
            \/ x \in reservations'
            \/ /\ \A y \in reservations' : y.id /= x.id
               /\ request'.handler = "delete_reservation"
               /\ request'.res_id = x.id
               /\ LoggedIn(session) ]_vars

\* A delete naming an existing reservation has just been turned away for
\* want of a session, and the reservation is still there.
C5_Witness ==
    /\ request.handler = "delete_reservation"
    /\ ~LoggedIn(session)
    /\ response.location = "/admin/login"
    /\ \E x \in reservations : x.id = request.res_id

\* C6: under an admin session, a delete request for id i leaves exactly the
\* reservations whose id is not i (so the table is unchanged when no
\* reservation has id i) and answers with a redirect to the dashboard; the
\* same delete applied to the resulting table changes nothing more.
C6_DeleteExactlyOne ==
    [][ ( /\ request'.handler = "delete_reservation"
          /\ LoggedIn(session) )
        => ( /\ reservations' = {x \in reservations : x.id /= request'.res_id}
             /\ response' = Redirect("/admin")
             /\ session' = session
             /\ DeleteTable(reservations', session', request'.res_id) = reservations' ) ]_vars

\* A delete under an admin session has just removed one reservation and left
\* another in place.
C6_Witness ==
    /\ request.handler = "delete_reservation"
    /\ LoggedIn(session)
    /\ response.location = "/admin"
    /\ reservations /= {}
    /\ \A x \in reservations : x.id /= request.res_id

\* A delete under an admin session named an id no reservation has.
C6_WitnessMissing ==
    /\ request.handler = "delete_reservation"
    /\ request.res_id = 0
    /\ response.location = "/admin"
    /\ Cardinality(reservations) = 2

\* The price list of the specification: 100, 75, 50, 100 by column.
PriceOf(r, c) == CASE c \in {1, 4} -> 100 [] c = 2 -> 75 [] c = 3 -> 50

RECURSIVE SumOfPrices(_)
SumOfPrices(table) ==
    IF table = {} THEN 0
    ELSE LET x == CHOOSE y \in table : TRUE
         IN  PriceOf(x.seatRow, x.seatColumn) + SumOfPrices(table \ {x})

\* C7: the dashboard shown under an admin session reports as total sales the
\* sum of PriceOf(seatRow, seatColumn) over the reservations in the table
\* (150 when these are seats (1,1) and (1,3)), lists each reservation with
\* its own price, and changes neither the table nor the session.
C7_TotalSales ==
    [][ ( /\ request'.handler = "admin_dashboard"
          /\ LoggedIn(session) )
        => ( /\ response'.template = "admin.html"
             /\ response'.total_sales = Some(SumOfPrices(reservations))
             /\ ( {<<x.seatRow, x.seatColumn>> : x \in reservations}
                        = {<<1, 1>>, <<1, 3>>}
                  => response'.total_sales = Some(150) )
             /\ LET rows == response'.reservations_with_price[1]
                IN  /\ {rows[i][1] : i \in 1..Len(rows)} = reservations
                    /\ Len(rows) = Cardinality(reservations)
                    /\ \A i \in 1..Len(rows) :
                        rows[i][2] = PriceOf(rows[i][1].seatRow, rows[i][1].seatColumn)
             /\ reservations' = reservations
             /\ session' = session ) ]_vars

\* The dashboard shows 150 for seats (1,1) and (1,3).
C7_Witness ==
    /\ request.handler = "admin_dashboard"
    /\ response.template = "admin.html"
    /\ {<<x.seatRow, x.seatColumn>> : x \in reservations} = {<<1, 1>>, <<1, 3>>}
    /\ response.total_sales = Some(150)

\* The dashboard shows 175 for seats (12,2) and (12,4), after a delete.
C7_WitnessOther ==
    /\ request.handler = "admin_dashboard"
    /\ response.total_sales = Some(175)

\* The trimmed credentials of a login form are those of a stored admin.
Matches(form) ==
    \E a \in admins :
        a.username = strip(form["username"]) /\ a.password = strip(form["password"])

HasCredentials(form) == {"username", "password"} \subseteq DOMAIN form

\* C8: the session becomes authenticated only in a login whose trimmed
\* username and password are those of a stored admin, and every such login
\* authenticates it under that username and redirects to the dashboard; a
\* login matching no admin is answered "Invalid username or password" and
\* leaves the session as it was; the session stops being authenticated only
\* in a logout, and is never authenticated after a logout; the dashboard is
\* shown exactly when the session is authenticated.
C8_SessionFollowsLogin ==
    [][ /\ (LoggedIn(session') /\ ~LoggedIn(session))
            => ( /\ request'.handler = "admin_login" /\ request'.method = "POST"
                 /\ HasCredentials(request'.form)
                 /\ Matches(request'.form) )
        /\ (request'.handler = "admin_login" /\ request'.method = "POST"
                /\ HasCredentials(request'.form))
            => IF Matches(request'.form)
               THEN /\ LoggedIn(session')
                    /\ session'["admin_username"] = strip(request'.form["username"])
                    /\ response' = Redirect("/admin")
               ELSE /\ session' = session
                    /\ response'.status = 200
                    /\ response'.template = "login.html"
                    /\ response'.error = Some("Invalid username or password.")
        /\ (LoggedIn(session) /\ ~LoggedIn(session'))
            => request'.handler = "admin_logout"
        /\ request'.handler = "admin_logout"
            => (~LoggedIn(session') /\ response' = Redirect("/"))
        /\ request'.handler = "admin_dashboard"
            => ( /\ (response'.template = "admin.html") = LoggedIn(session)
                 /\ (response' = Redirect("/admin/login")) = ~LoggedIn(session) ) ]_vars

\* A login with the right username and a wrong password has just been
\* refused while no session was open.
C8_Witness ==
    /\ request.handler = "admin_login"
    /\ HasCredentials(request.form)
    /\ request.form["username"] = <<"a">>
    /\ request.form["password"] = <<"q">>
    /\ response.error = Some("Invalid username or password.")
    /\ ~LoggedIn(session)

\* A login sent with blanks around the right credentials opened the session.
C8_WitnessLogin ==
    /\ request.handler = "admin_login"
    /\ HasCredentials(request.form)
    /\ request.form["username"] = <<" ", "a", " ">>
    /\ LoggedIn(session)
    /\ session["admin_username"] = <<"a">>

---------------------------------------------------------------------------
(* Claims about concurrent bookings *)

\* Worker w commits its pending booking in this step.
Commits(w) == inflight[w] /= None /\ inflight'[w] = None

\* Worker w passes the seat check in this step.
PassesCheck(w) == inflight[w] = None /\ inflight'[w] /= None

CodesOf(table) == {x.eTicketNumber : x \in table}

\* C9: no two reservations in the table ever share an eTicketNumber; a
\* booking that reaches its commit with a code some reservation already
\* carries is answered with a server error and leaves the table as it was,
\* and one with an unused code inserts a reservation carrying that code.
C9_UniqueCodes ==
    [][ /\ \A x, y \in reservations' :
                x.eTicketNumber = y.eTicketNumber => x = y
        /\ \A w \in Workers :
            Commits(w) =>
                IF inflight[w][1].code \in CodesOf(reservations)
                THEN /\ reservations' = reservations
                     /\ response' = ServerError
                ELSE /\ reservations \subseteq reservations'
                     /\ {x.eTicketNumber : x \in reservations' \ reservations}
                            = {inflight[w][1].code}
                     /\ response'.status = 200 ]_vars

\* A booking has just failed at commit while the table holds a reservation.
C9_Witness ==
    /\ IsBooking(request)
    /\ response = ServerError
    /\ reservations /= {}

\* C10: a booking passes the seat check whenever no reservation for its seat
\* is in the table at that moment, whatever other bookings are pending, and
\* a booking that has passed the check inserts its reservation at commit
\* whether or not the seat has been reserved in the meantime, unless its
\* code is in use; so two reservations for one seat can be in the table.
C10_CheckThenInsertRace ==
    [][ \A w \in Workers :
        /\ PassesCheck(w) =>
                At(reservations, inflight'[w][1].seat_row,
                   inflight'[w][1].seat_column) = {}
        /\ (Commits(w) /\ inflight[w][1].code \notin CodesOf(reservations)) =>
                /\ reservations \subseteq reservations'
                /\ Cardinality(reservations' \ reservations) = 1
                /\ \A x \in reservations' \ reservations :
                        /\ x.seatRow = inflight[w][1].seat_row
                        /\ x.seatColumn = inflight[w][1].seat_column
                /\ response'.success /= None ]_vars

\* Two reservations for seat (1,3) are in the table, and the response to the
\* second booking confirms it.
C10_Witness ==
    /\ Cardinality(At(reservations, 1, 3)) = 2
    /\ IsBooking(request)
    /\ response.success /= None

====
